---- MODULE Spec2Model ----
(***************************************************************************)
(* The notification decision engine of src/utils/notificationDecisionEngine *)
(* as a state machine: the inputs of one invocation (task, profile, the     *)
(* caller's overdue-reminder count), the wall clock the invocation reads    *)
(* with `new Date()`, and the schedules the invocations returned.           *)
(*                                                                         *)
(* A Date is the number of local wall-clock minutes since 00:00 of day 0    *)
(* (due dates come from a datetime-local input, which has minute            *)
(* resolution; the clock is read at the same resolution).  Days have 24     *)
(* hours: daylight-saving shifts are outside the model.                     *)
(* An optional value (due_date, estimated_duration) is a sequence of length *)
(* 0 (null / undefined) or 1.  A string the code parses ("HH:MM") is a      *)
(* sequence of one-character strings.                                       *)
(*                                                                         *)
(* Around the engine: its batch and summary helpers, the scheduler hook     *)
(* (useNotificationScheduler) whose calls of scheduleSmartTaskNotifications *)
(* advance from one await to the next, and the platform hook                *)
(* (useLocalNotifications) with its type check, quiet hours and ids.        *)
(***************************************************************************)
EXTENDS Integers, Sequences, FiniteSets, TLC

VARIABLES
    task,                      \* the Task record handed to the engine
    profile,                   \* the UserProfile record handed to the engine
    existingOverdueReminders,  \* the caller-tracked overdue count handed over
    now,                       \* the wall clock (what new Date() returns)
    returned,                  \* the results of the invocations so far, in order:
                               \* each [at |-> the clock it read, schedule |-> its result]
    tasks,                     \* the task list handed to calculateAllNotificationSchedules
    overdueReminderCounts,     \* its overdueReminderCounts argument: task id -> count
    allSchedules,              \* <<>> before the batch call, <<its result>> after it
    summary,                   \* <<>> before getNotificationSummary, <<its result>> after
    settings,                  \* the NotificationSettings of useLocalNotifications
    pending,                   \* the platform's pending notifications
    scheduledTaskIds,          \* scheduledTaskIdsRef.current: identities already handed over
    lastSmartSchedule,         \* lastSmartScheduleRef.current: <<>> for null, else <<key>>
    runs,                      \* the calls of scheduleSmartTaskNotifications, in start order
    handed                     \* every notification passed to scheduleMultipleNotifications

engineVars == <<task, profile, existingOverdueReminders, now, returned>>
batchVars == <<tasks, overdueReminderCounts, allSchedules, summary>>
hookVars == <<settings, pending, scheduledTaskIds, lastSmartSchedule, runs, handed>>
vars == <<engineVars, batchVars, hookVars>>

----------------------------------------------------------------------------
(* Date arithmetic (the JavaScript Date API as the engine uses it).        *)

DayMinutes == 24 * 60

\* Date.prototype.getHours / getMinutes (local time)
getHours(d) == (d % DayMinutes) \div 60
getMinutes(d) == d % 60

\* d.setHours(h, m, 0, 0): same calendar day, time of day h:m:00.000
setHours(d, h, m) == (d \div DayMinutes) * DayMinutes + h * 60 + m

\* d.setDate(d.getDate() + n): n calendar days later, same time of day
addDays(d, n) == d + n * DayMinutes

\* new Date(d.getTime() - ms) / d.setHours(d.getHours() + h): shift by minutes
minusMinutes(d, m) == d - m
plusHours(d, h) == d + h * 60

----------------------------------------------------------------------------
(* String parsing: "HH:MM".split(':').map(Number)                          *)

DigitValue(c) ==
    CASE c = "0" -> 0 [] c = "1" -> 1 [] c = "2" -> 2 [] c = "3" -> 3
      [] c = "4" -> 4 [] c = "5" -> 5 [] c = "6" -> 6 [] c = "7" -> 7
      [] c = "8" -> 8 [] c = "9" -> 9

\* Number(s) of a string of decimal digits (Number("") is 0)
RECURSIVE Number(_)
Number(s) ==
    IF s = <<>> THEN 0
    ELSE Number(SubSeq(s, 1, Len(s) - 1)) * 10 + DigitValue(s[Len(s)])

\* s.split(sep), scanning from position i with the current piece cur
RECURSIVE splitFrom(_, _, _, _)
splitFrom(s, sep, i, cur) ==
    IF i > Len(s) THEN <<cur>>
    ELSE IF s[i] = sep THEN <<cur>> \o splitFrom(s, sep, i + 1, <<>>)
    ELSE splitFrom(s, sep, i + 1, Append(cur, s[i]))

split(s, sep) == splitFrom(s, sep, 1, <<>>)

\* const [hour, min] = str.split(':').map(Number)
parseHourMin(str) ==
    LET parts == split(str, ":")
    IN  <<Number(parts[1]), Number(parts[2])>>

----------------------------------------------------------------------------
(* The engine's helpers.                                                   *)

\* hasSpecificTime: false exactly at midnight
hasSpecificTime(dueDate) ==
    ~(getHours(dueDate) = 0 /\ getMinutes(dueDate) = 0)

\* (mutant: the end of the window returned for its start)
getPeakEnergyStart_end(preference) ==
    CASE preference = "morning" -> 12
      [] preference = "afternoon" -> 17
      [] preference = "evening" -> 21
      [] OTHER -> 12

\* getPeakEnergyHours(preference).start
getPeakEnergyStart(preference) ==
    CASE preference = "morning" -> 8
      [] preference = "afternoon" -> 12
      [] preference = "evening" -> 17
      [] OTHER -> 9

\* (mutant: the short-task bound exclusive)
getLeadTimeForDuration_below30(durationMinutes) ==
    IF durationMinutes = <<>> \/ durationMinutes[1] = 0 THEN 15
    ELSE IF durationMinutes[1] >= 120 THEN 30
    ELSE IF durationMinutes[1] >= 60 THEN 20
    ELSE IF durationMinutes[1] < 30 THEN 10
    ELSE 15

\* getLeadTimeForDuration: !durationMinutes is true for null, undefined and 0
getLeadTimeForDuration(durationMinutes) ==
    IF durationMinutes = <<>> \/ durationMinutes[1] = 0 THEN 15
    ELSE IF durationMinutes[1] >= 120 THEN 30
    ELSE IF durationMinutes[1] >= 60 THEN 20
    ELSE IF durationMinutes[1] <= 30 THEN 10
    ELSE 15

\* isWithinWorkHours: minute precision, bounds inclusive
isWithinWorkHours(date, prof) ==
    LET start == parseHourMin(prof.work_hours_start)
        end == parseHourMin(prof.work_hours_end)
        timeValue == getHours(date) * 60 + getMinutes(date)
    IN  /\ timeValue >= start[1] * 60 + start[2]
        /\ timeValue <= end[1] * 60 + end[2]

\* (mutant: every task clamped, whatever its category)
adjustToWorkHours_everyCategory(date, prof, isWorkTask) ==
    LET start == parseHourMin(prof.work_hours_start)
        end == parseHourMin(prof.work_hours_end)
        hour == getHours(date)
    IN  IF hour < start[1] THEN setHours(date, start[1], start[2])
        ELSE IF hour > end[1] THEN setHours(date, end[1], end[2])
        ELSE date

\* adjustToWorkHours: compares the HOUR only, then sets hour and minute
adjustToWorkHours(date, prof, isWorkTask) ==
    IF ~isWorkTask THEN date
    ELSE LET start == parseHourMin(prof.work_hours_start)
             end == parseHourMin(prof.work_hours_end)
             hour == getHours(date)
         IN  IF hour < start[1] THEN setHours(date, start[1], start[2])
             ELSE IF hour > end[1] THEN setHours(date, end[1], end[2])
             ELSE date

\* one ScheduledNotificationTime
Notif(time, reason, type, priority) ==
    [time |-> time, reason |-> reason, type |-> type, priority |-> priority]

\* notifications.push(...) under a condition
pushIf(cond, notif) == IF cond THEN <<notif>> ELSE <<>>

\* Array.prototype.sort((a, b) => a.time - b.time): stable, ascending by time
RECURSIVE sortByTime(_)
\* (mutant: the sort left out)
sortByTime_omitted(s) == s
insertByTime(sorted, n) ==
    LET k == Cardinality({i \in 1..Len(sorted) : sorted[i].time <= n.time})
    IN  SubSeq(sorted, 1, k) \o <<n>> \o SubSeq(sorted, k + 1, Len(sorted))
sortByTime(s) ==
    IF s = <<>> THEN <<>>
    ELSE insertByTime(sortByTime(SubSeq(s, 1, Len(s) - 1)), s[Len(s)])

----------------------------------------------------------------------------
(* calculateNotificationSchedule, branch by branch.  t is the task, prof    *)
(* the profile, count the existingOverdueReminders argument, clock the      *)
(* value of `new Date()` the invocation reads.                              *)

\* no due date: a daily-summary for a high-priority "work" task only
noDueDateNotifications(t, prof, clock) ==
    IF t.priority = "high"
    THEN LET reminderTime ==
                 setHours(addDays(clock, 1), getPeakEnergyStart(prof.peak_energy_time), 0)
             adjustedTime == adjustToWorkHours(reminderTime, prof, TRUE)
         IN  pushIf(t.category = "work" /\ adjustedTime > clock,
                    Notif(adjustedTime,
                          "High priority task without deadline - peak energy reminder",
                          "daily-summary", "high"))
    ELSE <<>>

\* (mutant: the cap of 3 applied to medium priority as well)
overdueNotifications_mediumCapped(t, prof, count, clock) ==
    IF t.priority = "high"
    THEN LET nextReminder == plusHours(clock, 4)
             adjustedReminder == adjustToWorkHours(nextReminder, prof, t.category = "work")
         IN  pushIf(count < 3 /\ adjustedReminder > clock,
                    Notif(adjustedReminder,
                          "Overdue high priority - reminder " \o ToString(count + 1) \o " of 3",
                          "overdue", "high"))
    ELSE IF t.priority = "medium"
    THEN LET nineToday == setHours(clock, 9, 0)
             reminderTime == IF nineToday <= clock THEN addDays(nineToday, 1) ELSE nineToday
         IN  pushIf(count < 3,
                    Notif(reminderTime, "Overdue medium priority - daily reminder",
                          "overdue", "medium"))
    ELSE <<>>

\* (mutant: 09:00 sharp still counts as ahead)
overdueNotifications_nineNotStrict(t, prof, count, clock) ==
    IF t.priority = "high"
    THEN LET nextReminder == plusHours(clock, 4)
             adjustedReminder == adjustToWorkHours(nextReminder, prof, t.category = "work")
         IN  pushIf(count < 3 /\ adjustedReminder > clock,
                    Notif(adjustedReminder,
                          "Overdue high priority - reminder " \o ToString(count + 1) \o " of 3",
                          "overdue", "high"))
    ELSE IF t.priority = "medium"
    THEN LET nineToday == setHours(clock, 9, 0)
             reminderTime == IF nineToday < clock THEN addDays(nineToday, 1) ELSE nineToday
         IN  <<Notif(reminderTime, "Overdue medium priority - daily reminder",
                     "overdue", "medium")>>
    ELSE <<>>

\* (mutant: the cap allows a fourth reminder)
overdueNotifications_capOffByOne(t, prof, count, clock) ==
    IF t.priority = "high"
    THEN LET nextReminder == plusHours(clock, 4)
             adjustedReminder == adjustToWorkHours(nextReminder, prof, t.category = "work")
         IN  pushIf(count <= 3 /\ adjustedReminder > clock,
                    Notif(adjustedReminder,
                          "Overdue high priority - reminder " \o ToString(count + 1) \o " of 3",
                          "overdue", "high"))
    ELSE IF t.priority = "medium"
    THEN LET nineToday == setHours(clock, 9, 0)
             reminderTime == IF nineToday <= clock THEN addDays(nineToday, 1) ELSE nineToday
         IN  <<Notif(reminderTime, "Overdue medium priority - daily reminder",
                     "overdue", "medium")>>
    ELSE <<>>

\* (mutant: the high reminder at the end of the clock's 4-hour window)
overdueNotifications_fourHourWindow(t, prof, count, clock) ==
    IF t.priority = "high"
    THEN LET nextReminder == (clock \div (4 * 60)) * (4 * 60) + 4 * 60
             adjustedReminder == adjustToWorkHours(nextReminder, prof, t.category = "work")
         IN  pushIf(count < 3 /\ adjustedReminder > clock,
                    Notif(adjustedReminder,
                          "Overdue high priority - reminder " \o ToString(count + 1) \o " of 3",
                          "overdue", "high"))
    ELSE IF t.priority = "medium"
    THEN LET nineToday == setHours(clock, 9, 0)
             reminderTime == IF nineToday <= clock THEN addDays(nineToday, 1) ELSE nineToday
         IN  <<Notif(reminderTime, "Overdue medium priority - daily reminder",
                     "overdue", "medium")>>
    ELSE <<>>

\* due date before today: high every 4 hours up to the cap, medium daily at 9am
overdueNotifications(t, prof, count, clock) ==
    IF t.priority = "high"
    THEN LET nextReminder == plusHours(clock, 4)
             adjustedReminder == adjustToWorkHours(nextReminder, prof, t.category = "work")
         IN  pushIf(count < 3 /\ adjustedReminder > clock,
                    Notif(adjustedReminder,
                          "Overdue high priority - reminder " \o ToString(count + 1) \o " of 3",
                          "overdue", "high"))
    ELSE IF t.priority = "medium"
    THEN LET nineToday == setHours(clock, 9, 0)
             reminderTime == IF nineToday <= clock THEN addDays(nineToday, 1) ELSE nineToday
         IN  <<Notif(reminderTime, "Overdue medium priority - daily reminder",
                     "overdue", "medium")>>
    ELSE <<>>

\* high priority, due date with a specific time: 24h before, 2h before, lead time before
highSpecificTimeNotifications(dueDate, leadTime, prof, isWorkTask, clock) ==
    LET twentyFourHoursBefore == minusMinutes(dueDate, 24 * 60)
        twoHoursBefore == minusMinutes(dueDate, 2 * 60)
        finalReminder == minusMinutes(dueDate, leadTime)
    IN  pushIf(twentyFourHoursBefore > clock,
               Notif(adjustToWorkHours(twentyFourHoursBefore, prof, isWorkTask),
                     "24hr advance notice for high priority", "advance-notice", "high"))
        \o
        pushIf(twoHoursBefore > clock,
               Notif(adjustToWorkHours(twoHoursBefore, prof, isWorkTask),
                     "2hr reminder before scheduled time", "reminder", "high"))
        \o
        pushIf(finalReminder > clock,
               Notif(finalReminder, ToString(leadTime) \o "min final reminder",
                     "final-reminder", "high"))

\* (mutant: the fixed hours not clamped into work hours)
fixedHourReminder_unclamped(dueDate, hour, label, prof, isWorkTask, clock) ==
    LET notifTime == setHours(dueDate, hour, 0)
        adjusted == notifTime
    IN  pushIf(notifTime > clock /\ adjusted > clock,
               Notif(adjusted, "High priority due date - " \o label \o " reminder",
                     "reminder", "high"))

\* one of the fixed-hour reminders of a date-only high-priority task
fixedHourReminder(dueDate, hour, label, prof, isWorkTask, clock) ==
    LET notifTime == setHours(dueDate, hour, 0)
        adjusted == adjustToWorkHours(notifTime, prof, isWorkTask)
    IN  pushIf(notifTime > clock /\ adjusted > clock,
               Notif(adjusted, "High priority due date - " \o label \o " reminder",
                     "reminder", "high"))

\* (mutant: the advance notice clamped into work hours like the reminders)
highDateOnlyNotifications_clampedAdvance(dueDate, isDueToday, prof, isWorkTask, clock) ==
    LET twentyFourHoursBefore == setHours(minusMinutes(dueDate, 24 * 60), 9, 0)
    IN  fixedHourReminder(dueDate, 9, "morning", prof, isWorkTask, clock)
        \o fixedHourReminder(dueDate, 14, "afternoon", prof, isWorkTask, clock)
        \o fixedHourReminder(dueDate, 18, "evening", prof, isWorkTask, clock)
        \o pushIf(twentyFourHoursBefore > clock /\ ~isDueToday,
                  Notif(adjustToWorkHours(twentyFourHoursBefore, prof, isWorkTask),
                        "24hr advance notice for high priority",
                        "advance-notice", "high"))

\* (mutant: a fourth fixed hour, noon)
highDateOnlyNotifications_withNoon(dueDate, isDueToday, prof, isWorkTask, clock) ==
    LET twentyFourHoursBefore == setHours(minusMinutes(dueDate, 24 * 60), 9, 0)
    IN  fixedHourReminder(dueDate, 9, "morning", prof, isWorkTask, clock)
        \o fixedHourReminder(dueDate, 12, "noon", prof, isWorkTask, clock)
        \o fixedHourReminder(dueDate, 14, "afternoon", prof, isWorkTask, clock)
        \o fixedHourReminder(dueDate, 18, "evening", prof, isWorkTask, clock)
        \o pushIf(twentyFourHoursBefore > clock /\ ~isDueToday,
                  Notif(twentyFourHoursBefore, "24hr advance notice for high priority",
                        "advance-notice", "high"))

\* high priority, date only: 9am, 2pm, 6pm on the day, and 9am the day before
highDateOnlyNotifications(dueDate, isDueToday, prof, isWorkTask, clock) ==
    LET twentyFourHoursBefore == setHours(minusMinutes(dueDate, 24 * 60), 9, 0)
    IN  fixedHourReminder(dueDate, 9, "morning", prof, isWorkTask, clock)
        \o fixedHourReminder(dueDate, 14, "afternoon", prof, isWorkTask, clock)
        \o fixedHourReminder(dueDate, 18, "evening", prof, isWorkTask, clock)
        \o pushIf(twentyFourHoursBefore > clock /\ ~isDueToday,
                  Notif(twentyFourHoursBefore, "24hr advance notice for high priority",
                        "advance-notice", "high"))

\* medium priority: 2h before a specific time, or 9am on a date-only due date
mediumNotifications(dueDate, specificTime, prof, isWorkTask, clock) ==
    IF specificTime
    THEN LET twoHoursBefore == minusMinutes(dueDate, 2 * 60)
         IN  pushIf(twoHoursBefore > clock,
                    Notif(adjustToWorkHours(twoHoursBefore, prof, isWorkTask),
                          "2hr reminder for medium priority task", "reminder", "medium"))
    ELSE LET reminderTime == setHours(dueDate, 9, 0)
             adjusted == adjustToWorkHours(reminderTime, prof, isWorkTask)
         IN  pushIf(reminderTime > clock /\ adjusted > clock,
                    Notif(adjusted, "Medium priority due date - morning reminder",
                          "reminder", "medium"))

\* (mutant: the due instant compared, not its calendar day)
isOverdueAt_byInstant(dueDate, clock) == dueDate < clock

\* the due-date classification: dueDateStart < todayStart
isOverdueAt(dueDate, clock) == setHours(dueDate, 0, 0) < setHours(clock, 0, 0)
isDueTodayAt(dueDate, clock) == setHours(dueDate, 0, 0) = setHours(clock, 0, 0)

\* the notifications of a task with a due date that is not overdue
datedNotifications(t, prof, clock) ==
    LET dueDate == t.due_date[1]
        isWorkTask == t.category = "work"
        high == IF t.priority = "high"
                THEN IF hasSpecificTime(dueDate)
                     THEN highSpecificTimeNotifications(
                              dueDate, getLeadTimeForDuration(t.estimated_duration),
                              prof, isWorkTask, clock)
                     ELSE highDateOnlyNotifications(
                              dueDate, isDueTodayAt(dueDate, clock), prof, isWorkTask, clock)
                ELSE <<>>
        medium == IF t.priority = "medium"
                  THEN mediumNotifications(dueDate, hasSpecificTime(dueDate),
                                           prof, isWorkTask, clock)
                  ELSE <<>>
    IN  sortByTime(high \o medium)

\* (mutant: the completed-task check left out)
scheduleNotifications_noCompletedCheck(t, prof, count, clock) ==
    IF t.priority = "low" THEN <<>>
    ELSE IF t.due_date = <<>> THEN noDueDateNotifications(t, prof, clock)
    ELSE IF isOverdueAt(t.due_date[1], clock)
         THEN overdueNotifications(t, prof, count, clock)
    ELSE datedNotifications(t, prof, clock)

\* the notifications calculateNotificationSchedule returns
scheduleNotifications(t, prof, count, clock) ==
    IF t.status = "completed" THEN <<>>
    ELSE IF t.priority = "low" THEN <<>>
    ELSE IF t.due_date = <<>> THEN noDueDateNotifications(t, prof, clock)
    ELSE IF isOverdueAt(t.due_date[1], clock)
         THEN overdueNotifications(t, prof, count, clock)
    ELSE datedNotifications(t, prof, clock)

calculateNotificationSchedule(t, prof, count, clock) ==
    [taskId |-> t.id, taskTitle |-> t.title,
     notifications |-> scheduleNotifications(t, prof, count, clock)]

----------------------------------------------------------------------------
(* The batch and summary helpers.                                          *)

\* overdueReminderCounts[task.id] || 0
countOrZero(counts, id) ==
    IF id \in DOMAIN counts /\ counts[id] # 0 THEN counts[id] ELSE 0

\* tasks.filter(not completed).map(calculateNotificationSchedule); every call of
\* the synchronous loop reads the clock within the same minute
scheduleEachActiveTask(taskList, prof, counts, clock) ==
    LET active == SelectSeq(taskList, LAMBDA t : t.status # "completed")
    IN  [k \in 1..Len(active) |->
             calculateNotificationSchedule(
                 active[k], prof, countOrZero(counts, active[k].id), clock)]

\* (mutant: the empty schedules kept)
calculateAllNotificationSchedules_keepEmpty(taskList, prof, counts, clock) ==
    scheduleEachActiveTask(taskList, prof, counts, clock)

\* calculateAllNotificationSchedules: ... .filter(schedule has notifications)
calculateAllNotificationSchedules(taskList, prof, counts, clock) ==
    SelectSeq(scheduleEachActiveTask(taskList, prof, counts, clock),
              LAMBDA sch : Len(sch.notifications) > 0)

\* the summary object before the loops
emptySummary ==
    [total |-> 0,
     byPriority |-> [high |-> 0, medium |-> 0, low |-> 0],
     byType |-> [t \in {} |-> 0]]

\* (mutant: a type's count set to 1 instead of incremented)
countNotification_typeNotAccumulated(sum, notif) ==
    [total |-> sum.total + 1,
     byPriority |-> [sum.byPriority EXCEPT ![notif.priority] = @ + 1],
     byType |-> [t \in DOMAIN sum.byType \cup {notif.type} |->
                     IF t = notif.type THEN 1 ELSE sum.byType[t]]]

\* the body of the inner loop: total++, byPriority[p]++, byType[t] = (byType[t] || 0) + 1
countNotification(sum, notif) ==
    [total |-> sum.total + 1,
     byPriority |-> [sum.byPriority EXCEPT ![notif.priority] = @ + 1],
     byType |-> [t \in DOMAIN sum.byType \cup {notif.type} |->
                     IF t = notif.type
                     THEN (IF t \in DOMAIN sum.byType THEN sum.byType[t] ELSE 0) + 1
                     ELSE sum.byType[t]]]

\* the inner loop over the notifications of one schedule
RECURSIVE countNotifications(_, _)
countNotifications(sum, notifs) ==
    IF notifs = <<>> THEN sum
    ELSE countNotifications(countNotification(sum, Head(notifs)), Tail(notifs))

\* the outer loop over the schedules
RECURSIVE countSchedules(_, _)
countSchedules(sum, scheds) ==
    IF scheds = <<>> THEN sum
    ELSE countSchedules(countNotifications(sum, Head(scheds).notifications), Tail(scheds))

getNotificationSummary(scheds) == countSchedules(emptySummary, scheds)

----------------------------------------------------------------------------
(* The platform hook (useLocalNotifications): notification ids, the type    *)
(* and quiet-hours checks of scheduleNotification.                          *)
(* A notification handed to it is [type, scheduleAt, taskId] (its title and *)
(* body play no part); a pending platform notification is                   *)
(* [id, at, type, taskId], type being extra.type.                           *)

\* the characters of the strings that get hashed
Letters ==
    <<"a", "b", "c", "d", "e", "f", "g", "h", "i", "j", "k", "l", "m",
      "n", "o", "p", "q", "r", "s", "t", "u", "v", "w", "x", "y", "z">>

\* String.charCodeAt for a lower-case letter, a decimal digit or "-"
charCodeAt(c) ==
    IF c = "-" THEN 45
    ELSE IF \E k \in DOMAIN Letters : Letters[k] = c
    THEN 96 + (CHOOSE k \in DOMAIN Letters : Letters[k] = c)
    ELSE 48 + DigitValue(c)

\* the characters of a notification type
typeChars(type) ==
    CASE type = "advance-notice" ->
             <<"a", "d", "v", "a", "n", "c", "e", "-", "n", "o", "t", "i", "c", "e">>
      [] type = "reminder" -> <<"r", "e", "m", "i", "n", "d", "e", "r">>
      [] type = "final-reminder" ->
             <<"f", "i", "n", "a", "l", "-", "r", "e", "m", "i", "n", "d", "e", "r">>
      [] type = "overdue" -> <<"o", "v", "e", "r", "d", "u", "e">>
      [] type = "daily-summary" ->
             <<"d", "a", "i", "l", "y", "-", "s", "u", "m", "m", "a", "r", "y">>

\* the characters of a task id "t<k>"
idChars(id) ==
    LET k == CHOOSE n \in 0..9 : id = "t" \o ToString(n)
    IN  <<"t", ToString(k)>>

\* one round of the hash loop on a 32-bit value kept as <<high 16 bits, low 16 bits>>:
\* hash = ((hash << 5) - hash) + char; hash = hash & hash
hashStep(hash, code) ==
    LET low == hash[2] * 31 + code
    IN  <<(hash[1] * 31 + low \div 65536) % 65536, low % 65536>>

RECURSIVE hashFrom(_, _)
hashFrom(hash, str) ==
    IF str = <<>> THEN hash
    ELSE hashFrom(hashStep(hash, charCodeAt(Head(str))), Tail(str))

\* Math.abs(hash) % 2147483647 of the signed 32-bit value <<high, low>>
absMod(hash) ==
    IF hash[1] < 32768
    THEN (hash[1] * 65536 + hash[2]) % 2147483647
    ELSE IF hash[1] = 32768 /\ hash[2] = 0
    THEN 1
    ELSE (65535 - hash[1]) * 65536 + (65536 - hash[2])

\* generateNotificationId(type, data.taskId): the hash of `${type}-${identifier}`;
\* the schedule time is not part of the string when there is a task id
generateNotificationId(type, identifier, at) ==
    absMod(hashFrom(<<0, 0>>, typeChars(type) \o <<"-">> \o idChars(identifier)))

\* typeSettings[notification.type] looked up in settings; a type that is not a
\* key of typeSettings gives settings[undefined], which is falsy
typeEnabled(type, sett) ==
    CASE type \in {"task-reminder", "advance-notice", "final-reminder"} -> sett.taskReminders
      [] type \in {"overdue-alert", "overdue"} -> sett.overdueAlerts
      [] type \in {"ai-recommendation", "daily-summary"} -> sett.aiRecommendations
      [] type = "check-in" -> sett.checkInReminders
      [] type = "smart-task" -> sett.smartTaskReminders
      [] OTHER -> FALSE

\* (mutant: the end of the quiet hours not part of them)
willBeInQuietHours_endExclusive(scheduleAt, sett) ==
    LET scheduleTimeMinutes == getHours(scheduleAt) * 60 + getMinutes(scheduleAt)
        qStart == parseHourMin(sett.quietHoursStart)
        qEnd == parseHourMin(sett.quietHoursEnd)
        quietStart == qStart[1] * 60 + qStart[2]
        quietEnd == qEnd[1] * 60 + qEnd[2]
    IN  IF quietStart > quietEnd
        THEN scheduleTimeMinutes >= quietStart \/ scheduleTimeMinutes < quietEnd
        ELSE scheduleTimeMinutes >= quietStart /\ scheduleTimeMinutes < quietEnd

\* the quiet-hours test of scheduleNotification
willBeInQuietHours(scheduleAt, sett) ==
    LET scheduleTimeMinutes == getHours(scheduleAt) * 60 + getMinutes(scheduleAt)
        qStart == parseHourMin(sett.quietHoursStart)
        qEnd == parseHourMin(sett.quietHoursEnd)
        quietStart == qStart[1] * 60 + qStart[2]
        quietEnd == qEnd[1] * 60 + qEnd[2]
    IN  IF quietStart > quietEnd
        THEN scheduleTimeMinutes >= quietStart \/ scheduleTimeMinutes <= quietEnd
        ELSE scheduleTimeMinutes >= quietStart /\ scheduleTimeMinutes <= quietEnd

\* what scheduleNotification resolves to on the native platform: <<>> for null,
\* <<id>> when it called LocalNotifications.schedule
scheduleNotificationResult(notification, sett) ==
    IF ~typeEnabled(notification.type, sett) THEN <<>>
    ELSE IF willBeInQuietHours(notification.scheduleAt, sett) THEN <<>>
    ELSE <<generateNotificationId(notification.type, notification.taskId,
                                  notification.scheduleAt)>>

\* LocalNotifications.schedule: a pending notification with the same id is replaced
platformSchedule(pendingNow, notification, id) ==
    {n \in pendingNow : n.id # id}
        \cup {[id |-> id, at |-> notification.scheduleAt,
               type |-> notification.type, taskId |-> notification.taskId]}

\* cancelNotificationsByType: getPending, filter on extra.type, cancel by id
platformCancelByType(pendingNow, type) ==
    LET toCancel == {n \in pendingNow : n.type = type}
    IN  {n \in pendingNow : n.id \notin {c.id : c \in toCancel}}

----------------------------------------------------------------------------
(* The scheduler hook (useNotificationScheduler): the schedule key and the  *)
(* synchronous loop of scheduleSmartTaskNotifications.                      *)

\* the schedule key: `${id}-${due_date}-${priority}` of the non-completed tasks,
\* joined; kept as the sequence of its parts
scheduleKeyOf(taskList) ==
    LET active == SelectSeq(taskList, LAMBDA t : t.status # "completed")
    IN  [k \in 1..Len(active) |-> <<active[k].id, active[k].due_date, active[k].priority>>]

\* the types scheduleSmartTaskNotifications cancels, in order
CancelledTypes == <<"task-reminder", "advance-notice", "overdue", "final-reminder">>

\* the pairs (schedule, notif) in the order of the two nested loops
RECURSIVE loopOrder(_)
loopOrder(scheds) ==
    IF scheds = <<>> THEN <<>>
    ELSE [k \in DOMAIN Head(scheds).notifications |->
              [taskId |-> Head(scheds).taskId, notif |-> Head(scheds).notifications[k]]]
         \o loopOrder(Tail(scheds))

\* `${schedule.taskId}-${notif.type}-${notif.time.getTime()}`
identityOf(taskId, notif) == <<taskId, notif.type, notif.time>>

\* overdueReminderCountsRef.current[taskId] = (... || 0) + 1
incrementCount(counts, taskId) ==
    [id \in DOMAIN counts \cup {taskId} |->
         IF id = taskId THEN countOrZero(counts, taskId) + 1 ELSE counts[id]]

\* (mutant: the identity not added to the set of scheduled ones)
loopBody_notRecorded(st, e) ==
    IF identityOf(e.taskId, e.notif) \in st.scheduled THEN st
    ELSE [scheduled |-> st.scheduled,
          counts |-> IF e.notif.type = "overdue"
                     THEN incrementCount(st.counts, e.taskId) ELSE st.counts,
          allNotifications |->
              Append(st.allNotifications,
                     [type |-> e.notif.type, scheduleAt |-> e.notif.time,
                      taskId |-> e.taskId])]

\* one iteration of the inner loop: skip an identity already in the set, else
\* count an overdue one, push the descriptor and add the identity to the set
loopBody(st, e) ==
    IF identityOf(e.taskId, e.notif) \in st.scheduled THEN st
    ELSE [scheduled |-> st.scheduled \cup {identityOf(e.taskId, e.notif)},
          counts |-> IF e.notif.type = "overdue"
                     THEN incrementCount(st.counts, e.taskId) ELSE st.counts,
          allNotifications |->
              Append(st.allNotifications,
                     [type |-> e.notif.type, scheduleAt |-> e.notif.time,
                      taskId |-> e.taskId])]

RECURSIVE loopOver(_, _)
loopOver(st, entries) ==
    IF entries = <<>> THEN st
    ELSE loopOver(loopBody(st, Head(entries)), Tail(entries))

----------------------------------------------------------------------------
(* The inputs explored.                                                    *)

MaxDay == 3            \* due dates lie on the days 0..MaxDay; the clock starts on day 1
MaxOverdueCount == 4   \* existingOverdueReminders ranges over 0..MaxOverdueCount
MaxDuration == 125     \* estimated_duration ranges over 0..MaxDuration where it is swept

Statuses == {"in_progress", "completed"}
Priorities == {"high", "medium", "low"}
Categories == {"work", "personal"}
AbsentCategory == ""   \* category undefined: like every value but "work", it fails === 'work'
PeakEnergyTimes == {"morning", "afternoon", "evening", ""}

\* "HH:MM" strings as the code sees them
HHMM(a, b, c, d) == <<a, b, ":", c, d>>
WorkHours ==
    { <<HHMM("0", "9", "0", "0"), HHMM("1", "7", "0", "0")>>,
      <<HHMM("0", "9", "3", "0"), HHMM("1", "7", "3", "0")>>,
      <<HHMM("1", "0", "0", "0"), HHMM("1", "3", "0", "0")>> }

Profile(hours, peak) ==
    [work_hours_start |-> hours[1], work_hours_end |-> hours[2], peak_energy_time |-> peak]

Task(due, status, priority, duration, category) ==
    [id |-> "t1", title |-> "Task", due_date |-> due, status |-> status,
     priority |-> priority, estimated_duration |-> duration, category |-> category]

\* every half hour of a day
HalfHours == {h * 60 + m : h \in 0..23, m \in {0, 30}}
\* a few times of day on both sides of every threshold of the engine
SomeTimes == {0, 8 * 60, 9 * 60, 13 * 60 + 30, 17 * 60 + 10, 21 * 60}

At(day, timeOfDay) == day * DayMinutes + timeOfDay
DueDates(times) == {<<>>} \cup {<<At(d, m)>> : d \in 0..MaxDay, m \in times}

\* Times swept finely, the other attributes of an active task at typical values
InitTimes ==
    /\ now \in {At(1, m) : m \in HalfHours}
    /\ task \in {Task(due, "in_progress", p, <<45>>, c) :
                     due \in DueDates(HalfHours), p \in {"high", "medium"}, c \in Categories}
    /\ profile \in {Profile(w, "morning") : w \in WorkHours}
    /\ existingOverdueReminders = 0

\* Every attribute swept, over a coarser set of times
InitAttributes ==
    /\ now \in {At(1, m) : m \in {8 * 60, 9 * 60, 15 * 60, 20 * 60}}
    /\ task \in {Task(due, s, p, d, c) :
                     due \in DueDates(SomeTimes), s \in Statuses, p \in Priorities,
                     d \in {<<>>, <<0>>, <<30>>, <<45>>, <<60>>, <<120>>},
                     c \in Categories \cup {AbsentCategory}}
    /\ profile \in {Profile(<<HHMM("0", "9", "0", "0"), HHMM("1", "7", "0", "0")>>, e) :
                        e \in PeakEnergyTimes}
    /\ existingOverdueReminders \in 0..MaxOverdueCount

\* Every estimated duration, for a high-priority task due at a specific time
InitDurations ==
    /\ now \in {At(1, 8 * 60), At(1, 12 * 60)}
    /\ task \in {Task(<<At(d, m)>>, "in_progress", "high", dur, c) :
                     d \in 1..2, m \in {9 * 60 + 10, 12 * 60 + 20},
                     dur \in {<<>>} \cup {<<n>> : n \in 0..MaxDuration}, c \in Categories}
    /\ profile = Profile(<<HHMM("0", "9", "0", "0"), HHMM("1", "7", "0", "0")>>, "morning")
    /\ existingOverdueReminders = 0

\* no batch call in progress
NoBatch ==
    /\ tasks = <<>>
    /\ overdueReminderCounts = <<>>
    /\ allSchedules = <<>>
    /\ summary = <<>>

\* the default settings of useLocalNotifications
DEFAULT_SETTINGS ==
    [checkInReminders |-> TRUE, taskReminders |-> TRUE, aiRecommendations |-> TRUE,
     overdueAlerts |-> TRUE, smartTaskReminders |-> TRUE,
     quietHoursStart |-> HHMM("2", "2", "0", "0"),
     quietHoursEnd |-> HHMM("0", "7", "0", "0")]

\* the scheduler hook not mounted
NoHook ==
    /\ settings = DEFAULT_SETTINGS
    /\ pending = {}
    /\ scheduledTaskIds = {}
    /\ lastSmartSchedule = <<>>
    /\ runs = <<>>
    /\ handed = <<>>

Init ==
    /\ returned = <<>>
    /\ NoBatch
    /\ NoHook
    /\ \/ InitTimes
       \/ InitAttributes
       \/ InitDurations

\* (mutant: the engine counts the reminders itself, in state that outlives the call)
Invoke_countingReminders ==
    /\ returned' = Append(returned,
                          [at |-> now,
                           schedule |-> calculateNotificationSchedule(
                                            task, profile, existingOverdueReminders, now)])
    /\ existingOverdueReminders' = existingOverdueReminders + 1
    /\ UNCHANGED <<task, profile, now, batchVars, hookVars>>

\* One invocation of calculateNotificationSchedule: it reads the clock and its
\* arguments, returns a schedule, and writes nothing that outlives the call
\* (every Date it changes is a copy made inside the call).
Invoke ==
    /\ returned' = Append(returned,
                          [at |-> now,
                           schedule |-> calculateNotificationSchedule(
                                            task, profile, existingOverdueReminders, now)])
    /\ UNCHANGED <<task, profile, existingOverdueReminders, now, batchVars, hookVars>>

\* the first invocation
Calculate ==
    /\ returned = <<>>
    /\ Invoke

Next == Calculate

Spec == Init /\ [][Next]_vars

----------------------------------------------------------------------------
(* Repeated invocations with the same arguments while the clock advances    *)
(* (the caller re-invokes the engine on every re-scan).                     *)

MaxCalls == 3      \* invocations in one behaviour
MaxTicks == 2      \* clock advances after the first invocation
TickMinutes == 60  \* minutes per clock advance

InitRepeat ==
    /\ returned = <<>>
    /\ NoBatch
    /\ NoHook
    /\ now \in {At(1, 8 * 60), At(1, 15 * 60)}
    /\ task \in {Task(due, s, p, d, c) :
                     due \in DueDates(SomeTimes), s \in Statuses, p \in Priorities,
                     d \in {<<>>, <<45>>}, c \in Categories}
    /\ profile = Profile(<<HHMM("0", "9", "0", "0"), HHMM("1", "7", "0", "0")>>, "morning")
    /\ existingOverdueReminders \in 0..MaxOverdueCount

\* a later invocation, with the same task, profile and count
Recalculate ==
    /\ returned # <<>>
    /\ Len(returned) < MaxCalls
    /\ Invoke

\* the wall clock advances
Tick ==
    /\ returned # <<>>
    /\ now + TickMinutes <= returned[1].at + MaxTicks * TickMinutes
    /\ now' = now + TickMinutes
    /\ UNCHANGED <<task, profile, existingOverdueReminders, returned, batchVars, hookVars>>

NextRepeat == Calculate \/ Recalculate \/ Tick

SpecRepeat == InitRepeat /\ [][NextRepeat]_vars

----------------------------------------------------------------------------
(* The batch call over a task list and the summary of its result, as the    *)
(* scheduler hook makes them.                                               *)

MaxTasks == 2   \* tasks in the list handed to the batch call

TaskId(k) == "t" \o ToString(k)

\* the tasks a list is drawn from, before they get their ids
TaskPool ==
    {Task(due, s, p, <<45>>, "work") :
         due \in {<<>>, <<At(0, 10 * 60)>>, <<At(1, 17 * 60 + 10)>>, <<At(2, 0)>>},
         s \in Statuses, p \in Priorities}

\* the lists of n pool tasks, the k-th with id TaskId(k)
TaskLists(n) ==
    {[k \in 1..n |-> [list[k] EXCEPT !.id = TaskId(k)]] : list \in [1..n -> TaskPool]}

\* count maps: some ids absent, some at 0, some at the cap
CountMaps == {[id \in ids |-> n] : ids \in SUBSET {TaskId(1), TaskId(2)}, n \in {0, 3}}

InitBatch ==
    /\ returned = <<>>
    /\ task = Task(<<>>, "completed", "low", <<>>, "work")
    /\ existingOverdueReminders = 0
    /\ profile = Profile(<<HHMM("0", "9", "0", "0"), HHMM("1", "7", "0", "0")>>, "")
    /\ now \in {At(1, 8 * 60), At(1, 15 * 60)}
    /\ tasks \in UNION {TaskLists(n) : n \in 0..MaxTasks}
    /\ overdueReminderCounts \in CountMaps
    /\ allSchedules = <<>>
    /\ summary = <<>>
    /\ NoHook

\* calculateAllNotificationSchedules(tasks, profile, overdueReminderCounts)
CalculateAll ==
    /\ allSchedules = <<>>
    /\ allSchedules' =
           <<calculateAllNotificationSchedules(tasks, profile, overdueReminderCounts, now)>>
    /\ UNCHANGED <<engineVars, tasks, overdueReminderCounts, summary, hookVars>>

\* getNotificationSummary(schedules): reads the schedules, builds a new object
Summarize ==
    /\ allSchedules # <<>>
    /\ summary = <<>>
    /\ summary' = <<getNotificationSummary(allSchedules[1])>>
    /\ UNCHANGED <<engineVars, tasks, overdueReminderCounts, allSchedules, hookVars>>

NextBatch == CalculateAll \/ Summarize

SpecBatch == InitBatch /\ [][NextBatch]_vars

----------------------------------------------------------------------------
(* The scheduler hook mounted in the dashboard: calls of                    *)
(* scheduleSmartTaskNotifications (a run), each advancing from one await to *)
(* the next, while the task list is edited and the clock advances.          *)
(* A run is [pc, tasks, scheduleKey, cancelled, schedules, allNotifications,*)
(* next, ids]: pc is "skipped" (returned at the key guard), "cancelling"    *)
(* (awaiting the cancelled-th cancelNotificationsByType), "scheduling"      *)
(* (inside scheduleMultipleNotifications, before its next-th element),      *)
(* "finishing" (scheduleMultipleNotifications resolved) or "done".          *)

MaxRuns == 4       \* calls of scheduleSmartTaskNotifications, one after the other
MaxOverlap == 2    \* calls of scheduleSmartTaskNotifications that may overlap

HookStart == At(1, 8 * 60)

\* the one task of the list, as the task dialog can leave it
HookTask(due, priority, category) ==
    [Task(due, "in_progress", priority, <<45>>, category) EXCEPT !.id = TaskId(1)]

HookTaskLists ==
    { <<HookTask(<<At(0, 10 * 60)>>, "high", "personal")>>,
      <<HookTask(<<At(0, 10 * 60)>>, "medium", "personal")>>,
      <<HookTask(<<At(2, 0)>>, "high", "work")>>,
      <<HookTask(<<>>, "high", "work")>> }

\* the two of them the overlapping calls are explored with
OverlapTaskLists ==
    { <<HookTask(<<At(0, 10 * 60)>>, "high", "personal")>>,
      <<HookTask(<<At(2, 0)>>, "high", "work")>> }

InitHookWith(taskLists) ==
    /\ returned = <<>>
    /\ task = Task(<<>>, "completed", "low", <<>>, "work")
    /\ existingOverdueReminders = 0
    /\ allSchedules = <<>>
    /\ summary = <<>>
    /\ profile = Profile(<<HHMM("0", "9", "0", "0"), HHMM("1", "7", "0", "0")>>, "")
    /\ now = HookStart
    /\ tasks \in taskLists
    /\ overdueReminderCounts = <<>>
    /\ settings = DEFAULT_SETTINGS
    /\ pending = {}
    /\ scheduledTaskIds = {}
    /\ lastSmartSchedule = <<>>
    /\ runs = <<>>
    /\ handed = <<>>

InFlight == {r \in DOMAIN runs : runs[r].pc \notin {"skipped", "done"}}

\* scheduleSmartTaskNotifications is called (by an effect or a component): the
\* key guard, then the first cancelNotificationsByType is awaited
BeginRun ==
    /\ LET scheduleKey == scheduleKeyOf(tasks)
       IN  runs' = Append(runs,
                      [pc |-> IF lastSmartSchedule = <<scheduleKey>>
                              THEN "skipped" ELSE "cancelling",
                       tasks |-> tasks, scheduleKey |-> scheduleKey, cancelled |-> 0,
                       schedules |-> <<>>, allNotifications |-> <<>>,
                       next |-> 1, ids |-> <<>>])
    /\ UNCHANGED <<engineVars, batchVars, settings, pending, scheduledTaskIds,
                   lastSmartSchedule, handed>>

\* a call at any time, also while earlier calls are suspended at an await
StartRun ==
    /\ Len(runs) < MaxOverlap
    /\ BeginRun

\* a call when every earlier call has returned
StartRunAlone ==
    /\ Len(runs) < MaxRuns
    /\ InFlight = {}
    /\ BeginRun

\* an awaited cancelNotificationsByType of run r takes effect.  Its getPending
\* and cancel are one step: a notification scheduled between the two has the
\* id of one of the same type or a new id, so the result is that of a cancel
\* after it or before it.
CancelNext(r) ==
    /\ runs[r].pc = "cancelling"
    /\ runs[r].cancelled < Len(CancelledTypes)
    /\ pending' = platformCancelByType(pending, CancelledTypes[runs[r].cancelled + 1])
    /\ runs' = [runs EXCEPT ![r].cancelled = @ + 1]
    /\ UNCHANGED <<engineVars, batchVars, settings, scheduledTaskIds,
                   lastSmartSchedule, handed>>

\* run r resumes after the last cancellation: the engine, the summary, the
\* de-duplicating loop and the call of scheduleMultipleNotifications, with no
\* await in between
ComputeAndHand(r) ==
    /\ runs[r].pc = "cancelling"
    /\ runs[r].cancelled = Len(CancelledTypes)
    /\ LET schedules == calculateAllNotificationSchedules(
                            runs[r].tasks, profile, overdueReminderCounts, now)
           st == loopOver([scheduled |-> scheduledTaskIds,
                           counts |-> overdueReminderCounts,
                           allNotifications |-> <<>>],
                          loopOrder(schedules))
       IN  /\ scheduledTaskIds' = st.scheduled
           /\ overdueReminderCounts' = st.counts
           /\ handed' = handed \o st.allNotifications
           /\ IF st.allNotifications = <<>>
              THEN /\ lastSmartSchedule' = <<runs[r].scheduleKey>>
                   /\ runs' = [runs EXCEPT ![r].pc = "done", ![r].schedules = schedules]
              ELSE /\ lastSmartSchedule' = lastSmartSchedule
                   /\ runs' = [runs EXCEPT ![r].pc = "scheduling",
                                           ![r].schedules = schedules,
                                           ![r].allNotifications = st.allNotifications]
    /\ UNCHANGED <<engineVars, tasks, allSchedules, summary, settings, pending>>

\* scheduleMultipleNotifications of run r awaits scheduleNotification for its
\* next element
ScheduleNext(r) ==
    /\ runs[r].pc = "scheduling"
    /\ LET notification == runs[r].allNotifications[runs[r].next]
           id == scheduleNotificationResult(notification, settings)
           last == runs[r].next = Len(runs[r].allNotifications)
       IN  /\ pending' = IF id = <<>> THEN pending
                         ELSE platformSchedule(pending, notification, id[1])
           /\ runs' = [runs EXCEPT ![r].next = @ + 1,
                                   ![r].ids = @ \o id,
                                   ![r].pc = IF last THEN "finishing" ELSE "scheduling"]
    /\ UNCHANGED <<engineVars, batchVars, settings, scheduledTaskIds,
                   lastSmartSchedule, handed>>

\* run r resumes after scheduleMultipleNotifications: lastSmartScheduleRef = key
FinishRun(r) ==
    /\ runs[r].pc = "finishing"
    /\ lastSmartSchedule' = <<runs[r].scheduleKey>>
    /\ runs' = [runs EXCEPT ![r].pc = "done"]
    /\ UNCHANGED <<engineVars, batchVars, settings, pending, scheduledTaskIds, handed>>

\* the user edits the task (priority, due date, category): new props
EditTasksWithin(taskLists) ==
    /\ tasks' \in taskLists \ {tasks}
    /\ UNCHANGED <<engineVars, overdueReminderCounts, allSchedules, summary, hookVars>>

\* the wall clock advances
Advance ==
    /\ now + TickMinutes <= HookStart + MaxTicks * TickMinutes
    /\ now' = now + TickMinutes
    /\ UNCHANGED <<task, profile, existingOverdueReminders, returned, batchVars, hookVars>>

\* a step of some run
RunStep ==
    \E r \in DOMAIN runs :
        CancelNext(r) \/ ComputeAndHand(r) \/ ScheduleNext(r) \/ FinishRun(r)

\* calls that may overlap
EditOverlapTasks == EditTasksWithin(OverlapTaskLists)
InitHookOverlap == InitHookWith(OverlapTaskLists)

NextHook == StartRun \/ RunStep \/ EditOverlapTasks \/ Advance

SpecHook == InitHookOverlap /\ [][NextHook]_vars

\* calls one after the other, over a longer session
EditTasks == EditTasksWithin(HookTaskLists)
InitHook == InitHookWith(HookTaskLists)

NextHookSerial == StartRunAlone \/ RunStep \/ EditTasks \/ Advance

SpecHookSerial == InitHook /\ [][NextHookSerial]_vars

----------------------------------------------------------------------------
(* scheduleMultipleNotifications on its own: a caller hands it a list of    *)
(* descriptors, under settings the user has chosen.  The call is the run    *)
(* record from its "scheduling" position on.                                *)

MaxBatch == 2   \* descriptors in the list handed over

\* "HH:MM" of a minute of the day, as the settings screen stores it
hhmmOf(m) ==
    HHMM(ToString((m \div 60) \div 10), ToString((m \div 60) % 10),
         ToString((m % 60) \div 10), ToString((m % 60) % 10))

\* quiet hours as <<start, end>> minutes of the day: over midnight, within a day
QuietWindows == {<<22 * 60, 7 * 60>>, <<12 * 60, 13 * 60>>}

\* the settings the user may have: a quiet-hours window, overdue alerts on or off
SettingsChoices ==
    {[DEFAULT_SETTINGS EXCEPT !.quietHoursStart = hhmmOf(w[1]),
                              !.quietHoursEnd = hhmmOf(w[2]),
                              !.overdueAlerts = alerts] :
         w \in QuietWindows, alerts \in BOOLEAN}

\* descriptors on both sides of the ends of the quiet hours
DescriptorPool ==
    {[type |-> ty, scheduleAt |-> At(1, m), taskId |-> TaskId(1)] :
         ty \in {"advance-notice", "overdue", "reminder"},
         m \in {7 * 60, 7 * 60 + 1, 12 * 60 + 30, 21 * 60 + 59, 22 * 60}}

InitPlatform ==
    /\ returned = <<>>
    /\ task = Task(<<>>, "completed", "low", <<>>, "work")
    /\ existingOverdueReminders = 0
    /\ profile = Profile(<<HHMM("0", "9", "0", "0"), HHMM("1", "7", "0", "0")>>, "")
    /\ now = HookStart
    /\ NoBatch
    /\ settings \in SettingsChoices
    /\ pending = {}
    /\ scheduledTaskIds = {}
    /\ lastSmartSchedule = <<>>
    /\ handed = <<>>
    /\ \E n \in 1..MaxBatch : \E batch \in [1..n -> DescriptorPool] :
           runs = <<[pc |-> "scheduling", tasks |-> <<>>, scheduleKey |-> <<>>,
                     cancelled |-> Len(CancelledTypes), schedules |-> <<>>,
                     allNotifications |-> batch, next |-> 1, ids |-> <<>>]>>

\* the loop of scheduleMultipleNotifications, one scheduleNotification at a time
ScheduleBatch == \E r \in DOMAIN runs : ScheduleNext(r)

SpecPlatform == InitPlatform /\ [][ScheduleBatch]_vars

----------------------------------------------------------------------------
(* Vocabulary of the properties.                                           *)

Calls == DOMAIN returned
NotifsOf(i) == returned[i].schedule.notifications
ClockOf(i) == returned[i].at

Active == task.status # "completed"
HasDueDate == task.due_date # <<>>
Due == task.due_date[1]
IsWork == task.category = "work"
DayStart(d) == d - (d % DayMinutes)
TimeOfDay(d) == d % DayMinutes
DueBeforeToday(i) == HasDueDate /\ DayStart(Due) < DayStart(ClockOf(i))
DueToday(i) == HasDueDate /\ DayStart(Due) = DayStart(ClockOf(i))
DueSpecific == HasDueDate /\ TimeOfDay(Due) # 0
NineToFive ==
    /\ profile.work_hours_start = HHMM("0", "9", "0", "0")
    /\ profile.work_hours_end = HHMM("1", "7", "0", "0")
TypesOf(i) == {NotifsOf(i)[k].type : k \in DOMAIN NotifsOf(i)}

----------------------------------------------------------------------------
(* C1: every notification of a returned schedule has a time strictly after  *)
(* the clock the invocation read, the work-hours-clamped ones included.     *)
(* The code checks the 24h-before and 2h-before candidates BEFORE clamping  *)
(* them and never after, so this fails.                                      *)
C1_AllTimesInFuture ==
    \A i \in Calls : \A k \in DOMAIN NotifsOf(i) : NotifsOf(i)[k].time > ClockOf(i)

(* C2: a completed task and a low-priority task get an empty notification   *)
(* list, whatever the due date, category, duration, profile, count, clock.  *)
C2_CompletedOrLowIsEmpty ==
    \A i \in Calls :
        (task.status = "completed" \/ task.priority = "low") => NotifsOf(i) = <<>>

\* a completed high-priority task, overdue and below the cap, was evaluated
C2_Witness ==
    /\ returned # <<>>
    /\ task.status = "completed"
    /\ task.priority = "high"
    /\ DueBeforeToday(1)
    /\ existingOverdueReminders = 0
    /\ NotifsOf(1) = <<>>

(* C3: in every returned schedule, whichever branch produced it, the        *)
(* notifications are in non-decreasing order of time.                       *)
C3_SortedByTime ==
    \A i \in Calls : \A j, k \in DOMAIN NotifsOf(i) :
        j < k => NotifsOf(i)[j].time <= NotifsOf(i)[k].time

\* a date-only high-priority task whose advance notice, pushed last, comes first
C3_Witness ==
    /\ returned # <<>>
    /\ Len(NotifsOf(1)) = 4
    /\ NotifsOf(1)[1].type = "advance-notice"
    /\ NotifsOf(1)[1].time < NotifsOf(1)[2].time

(* C5: a not-completed high-priority "work" task with a specific due time   *)
(* T, estimated duration 45 and work hours 09:00-17:00, evaluated well      *)
(* before T-24h (here: at least 48 hours before T), gets exactly three      *)
(* entries in this order: advance-notice at T-24h clamped, reminder at      *)
(* T-2h clamped, final-reminder at exactly T-15min, for every time of day   *)
(* of T.  The order fails when clamping moves T-2h forward past T-15min.    *)
C5_HighWorkThreeInOrder ==
    \A i \in Calls :
        ( /\ Active /\ task.priority = "high" /\ IsWork /\ DueSpecific
          /\ task.estimated_duration = <<45>> /\ NineToFive
          /\ ClockOf(i) + 48 * 60 <= Due )
        => /\ Len(NotifsOf(i)) = 3
           /\ NotifsOf(i)[1].type = "advance-notice"
           /\ NotifsOf(i)[1].time = adjustToWorkHours(Due - 24 * 60, profile, TRUE)
           /\ NotifsOf(i)[2].type = "reminder"
           /\ NotifsOf(i)[2].time = adjustToWorkHours(Due - 2 * 60, profile, TRUE)
           /\ NotifsOf(i)[3].type = "final-reminder"
           /\ NotifsOf(i)[3].time = Due - 15

(* C6 as claimed: a not-completed medium-priority task due before today,    *)
(* evaluated with existingOverdueReminders = 3, gets an empty schedule.     *)
C6_MediumOverdueCapped ==
    \A i \in Calls :
        ( Active /\ task.priority = "medium" /\ DueBeforeToday(i)
          /\ existingOverdueReminders = 3 )
        => NotifsOf(i) = <<>>

(* C6 as amended: such a task, evaluated with existingOverdueReminders = 3, *)
(* still gets exactly one entry, of type overdue and priority medium: the   *)
(* cap of 3 applies to high-priority tasks only.                            *)
C6_MediumOverdueNotCapped ==
    \A i \in Calls :
        ( Active /\ task.priority = "medium" /\ DueBeforeToday(i)
          /\ existingOverdueReminders = 3 )
        => /\ Len(NotifsOf(i)) = 1
           /\ NotifsOf(i)[1].type = "overdue"
           /\ NotifsOf(i)[1].priority = "medium"

\* a medium-priority task overdue by a day, evaluated at the cap
C6_Witness ==
    /\ returned # <<>>
    /\ Active /\ task.priority = "medium" /\ DueBeforeToday(1)
    /\ existingOverdueReminders = 3
    /\ Len(NotifsOf(1)) = 1

\* 09:00 of the clock's day when that is strictly after the clock, else 09:00 of the next day
NextNineAM(clock) ==
    IF DayStart(clock) + 9 * 60 > clock
    THEN DayStart(clock) + 9 * 60
    ELSE DayStart(clock) + DayMinutes + 9 * 60

(* C7: a not-completed medium-priority task due before today, evaluated     *)
(* with existingOverdueReminders = 0, gets exactly one entry, of type       *)
(* overdue and priority medium, at 09:00: today's when that is strictly     *)
(* after the clock, else tomorrow's; for every category, never clamped.     *)
C7_MediumOverdueAtNine ==
    \A i \in Calls :
        ( Active /\ task.priority = "medium" /\ DueBeforeToday(i)
          /\ existingOverdueReminders = 0 )
        => /\ Len(NotifsOf(i)) = 1
           /\ NotifsOf(i)[1].type = "overdue"
           /\ NotifsOf(i)[1].priority = "medium"
           /\ NotifsOf(i)[1].time = NextNineAM(ClockOf(i))

\* a "work" task with work hours from 10:00, evaluated at 09:00 sharp: tomorrow's 09:00
C7_Witness ==
    /\ returned # <<>>
    /\ Active /\ task.priority = "medium" /\ DueBeforeToday(1) /\ IsWork
    /\ existingOverdueReminders = 0
    /\ profile.work_hours_start = HHMM("1", "0", "0", "0")
    /\ TimeOfDay(ClockOf(1)) = 9 * 60
    /\ NotifsOf(1)[1].time = DayStart(ClockOf(1)) + DayMinutes + 9 * 60

TableLeadTime(duration) ==
    IF duration = <<>> THEN 15
    ELSE IF duration[1] <= 30 THEN 10
    ELSE IF duration[1] <= 59 THEN 15
    ELSE IF duration[1] <= 119 THEN 20
    ELSE 30

\* the same, a duration of 0 counting as unset
TableLeadTimeZeroUnset(duration) ==
    IF duration = <<>> \/ duration[1] = 0 THEN 15 ELSE TableLeadTime(duration)

\* the final-reminder entries of invocation i are at Due - lead, and say so
FinalReminderAt(i, lead) ==
    \A k \in DOMAIN NotifsOf(i) :
        NotifsOf(i)[k].type = "final-reminder"
        => /\ NotifsOf(i)[k].time = Due - lead
           /\ NotifsOf(i)[k].reason = ToString(lead) \o "min final reminder"

(* C10 as claimed: the final reminder of a high-priority task with a        *)
(* specific due time is at exactly due minus the table's offset: 15 minutes *)
(* for an unset duration, 10 for every duration from 0 to 30, 15 for 31-59, *)
(* 20 for 60-119, 30 from 120 on.                                           *)
C10_LeadTimeTable ==
    \A i \in Calls :
        ( Active /\ task.priority = "high" /\ DueSpecific /\ ~DueBeforeToday(i) )
        => FinalReminderAt(i, TableLeadTime(task.estimated_duration))

(* C10 as amended: the same with a duration of 0 treated as unset: 15       *)
(* minutes for an unset duration or 0, 10 for 1-30, 15 for 31-59, 20 for    *)
(* 60-119, 30 from 120 on; the final reminder, when emitted, is at exactly  *)
(* due minus that offset.                                                    *)
C10_LeadTimeTableZeroUnset ==
    \A i \in Calls :
        ( Active /\ task.priority = "high" /\ DueSpecific /\ ~DueBeforeToday(i) )
        => FinalReminderAt(i, TableLeadTimeZeroUnset(task.estimated_duration))

\* a 30-minute task, whose final reminder is 10 minutes before the due time
C10_Witness ==
    /\ returned # <<>>
    /\ Active /\ task.priority = "high" /\ DueSpecific
    /\ task.estimated_duration = <<30>>
    /\ \E k \in DOMAIN NotifsOf(1) :
           /\ NotifsOf(1)[k].type = "final-reminder"
           /\ NotifsOf(1)[k].time = Due - 10

----------------------------------------------------------------------------
\* the minute of the day an "HH:MM" string names
MinuteOfDay(str) == parseHourMin(str)[1] * 60 + parseHourMin(str)[2]

(* C11: for a "work" task (work_hours_start <= work_hours_end) clamping     *)
(* maps a candidate to an instant of the same calendar day whose time of    *)
(* day lies within [work_hours_start, work_hours_end] at minute precision:  *)
(* earlier than the start becomes the start, later than the end becomes the *)
(* end, inside the window is unchanged.  Checked on the overdue reminder of *)
(* a high-priority "work" task, whose candidate is clock+4h.  The code      *)
(* compares hours only, so 17:30 stays 17:30 with work hours 09:00-17:00.   *)
C11_ClampedIntoWindow ==
    \A i \in Calls :
        ( /\ Active /\ task.priority = "high" /\ IsWork /\ DueBeforeToday(i)
          /\ NotifsOf(i) # <<>> )
        => LET candidate == ClockOf(i) + 4 * 60
               start == MinuteOfDay(profile.work_hours_start)
               end == MinuteOfDay(profile.work_hours_end)
               time == NotifsOf(i)[1].time
           IN  /\ DayStart(time) = DayStart(candidate)
               /\ TimeOfDay(time) >= start /\ TimeOfDay(time) <= end
               /\ TimeOfDay(candidate) < start => TimeOfDay(time) = start
               /\ TimeOfDay(candidate) > end => TimeOfDay(time) = end
               /\ (TimeOfDay(candidate) >= start /\ TimeOfDay(candidate) <= end)
                    => time = candidate

\* the (type, time) pairs a task that is never clamped may get
UnclampedCandidates(i) ==
    LET clock == ClockOf(i)
        day == DayStart(Due)
    IN  IF ~HasDueDate THEN {}
        ELSE IF DueBeforeToday(i)
        THEN IF task.priority = "high" THEN {<<"overdue", clock + 4 * 60>>}
             ELSE {<<"overdue", NextNineAM(clock)>>}
        ELSE IF DueSpecific
        THEN IF task.priority = "high"
             THEN {<<"advance-notice", Due - 24 * 60>>, <<"reminder", Due - 2 * 60>>,
                   <<"final-reminder",
                     Due - TableLeadTimeZeroUnset(task.estimated_duration)>>}
             ELSE {<<"reminder", Due - 2 * 60>>}
        ELSE IF task.priority = "high"
             THEN {<<"reminder", day + 9 * 60>>, <<"reminder", day + 14 * 60>>,
                   <<"reminder", day + 18 * 60>>,
                   <<"advance-notice", day - DayMinutes + 9 * 60>>}
             ELSE {<<"reminder", day + 9 * 60>>}

(* C12: for a task whose category is not exactly "work" (an absent category *)
(* included) the work-hours window alters no notification time: the         *)
(* schedule is the one every other work-hours setting gives, and each       *)
(* emitted time is its unclamped candidate (T-24h, T-2h, T-lead, the fixed  *)
(* 09:00/14:00/18:00 hours, clock+4h).                                       *)
C12_NonWorkNeverClamped ==
    \A i \in Calls :
        ~IsWork
        => /\ \A w \in WorkHours :
                  returned[i].schedule =
                      calculateNotificationSchedule(
                          task, Profile(w, profile.peak_energy_time),
                          existingOverdueReminders, ClockOf(i))
           /\ \A k \in DOMAIN NotifsOf(i) :
                  <<NotifsOf(i)[k].type, NotifsOf(i)[k].time>> \in UnclampedCandidates(i)

\* a task without a category, overdue, reminded at 19:00 with work hours 09:00-17:00
C12_Witness ==
    /\ returned # <<>>
    /\ Active /\ task.priority = "high" /\ task.category = AbsentCategory
    /\ DueBeforeToday(1) /\ NineToFive
    /\ TimeOfDay(ClockOf(1)) = 15 * 60
    /\ Len(NotifsOf(1)) = 1
    /\ TimeOfDay(NotifsOf(1)[1].time) = 19 * 60

\* the start hour of a peak-energy window
PeakStartHour(preference) ==
    CASE preference = "morning" -> 8
      [] preference = "afternoon" -> 12
      [] preference = "evening" -> 17

----------------------------------------------------------------------------
\* the (type, instant before clamping) pairs of the candidates that are clamped,
\* for a task with a due date of today or later
ClampedCandidates ==
    LET day == DayStart(Due)
    IN  IF DueSpecific
        THEN IF task.priority = "high"
             THEN {<<"advance-notice", Due - 24 * 60>>, <<"reminder", Due - 2 * 60>>}
             ELSE {<<"reminder", Due - 2 * 60>>}
        ELSE IF task.priority = "high"
             THEN {<<"reminder", day + 9 * 60>>, <<"reminder", day + 14 * 60>>,
                   <<"reminder", day + 18 * 60>>}
             ELSE {<<"reminder", day + 9 * 60>>}

\* what the engine's clamping makes of candidate c for this task
Clamped(c) == adjustToWorkHours(c, profile, IsWork)

Emitted(i, type, time) ==
    \E k \in DOMAIN NotifsOf(i) : NotifsOf(i)[k].type = type /\ NotifsOf(i)[k].time = time

(* C16: for a task with a due date of today or later, a clamped candidate   *)
(* (24h-before and 2h-before of a specific due time, 09:00/14:00/18:00 of a *)
(* date-only high task, the medium reminder) is emitted iff its instant     *)
(* after work-hours clamping is strictly after the clock.  The code tests   *)
(* the 24h/2h candidates before clamping only, so this fails both ways.     *)
C16_EmittedIffClampedInFuture ==
    \A i \in Calls :
        ( Active /\ task.priority \in {"high", "medium"} /\ HasDueDate
          /\ ~DueBeforeToday(i) )
        => \A c \in ClampedCandidates :
               Emitted(i, c[1], Clamped(c[2])) <=> Clamped(c[2]) > ClockOf(i)

(* C17: a not-completed medium-priority task due today or later gets at     *)
(* most one entry, of type reminder and priority medium, at T-2h (clamped   *)
(* for "work") when the due time is specific, at 09:00 of the due date      *)
(* (clamped for "work") when it is date-only, present exactly when that     *)
(* instant is still in the future.  Fails with C1: the 2h reminder is       *)
(* tested before clamping.                                                   *)
C17_MediumReminder ==
    \A i \in Calls :
        ( Active /\ task.priority = "medium" /\ HasDueDate /\ ~DueBeforeToday(i) )
        => LET instant == Clamped(IF DueSpecific THEN Due - 2 * 60
                                  ELSE DayStart(Due) + 9 * 60)
           IN  /\ Len(NotifsOf(i)) <= 1
               /\ Len(NotifsOf(i)) = 1 <=> instant > ClockOf(i)
               /\ Len(NotifsOf(i)) = 1
                    => /\ NotifsOf(i)[1].type = "reminder"
                       /\ NotifsOf(i)[1].priority = "medium"
                       /\ NotifsOf(i)[1].time = instant

(* C18: a not-completed high-priority date-only task gets an advance-notice *)
(* entry iff its due date is not today and 09:00 of the day before the due  *)
(* date is strictly after the clock; the entry is at exactly that 09:00     *)
(* (never clamped) and is the first of the schedule, before every due-date  *)
(* reminder.                                                                 *)
C18_DateOnlyAdvanceNotice ==
    \A i \in Calls :
        ( Active /\ task.priority = "high" /\ HasDueDate /\ ~DueSpecific )
        => LET dayBeforeAtNine == DayStart(Due) - DayMinutes + 9 * 60
               advances == {k \in DOMAIN NotifsOf(i) :
                                NotifsOf(i)[k].type = "advance-notice"}
           IN  /\ advances # {} <=> (~DueToday(i) /\ dayBeforeAtNine > ClockOf(i))
               /\ advances \subseteq {1}
               /\ \A k \in advances :
                      /\ NotifsOf(i)[k].time = dayBeforeAtNine
                      /\ \A j \in DOMAIN NotifsOf(i) :
                             j # k => /\ NotifsOf(i)[j].type = "reminder"
                                      /\ NotifsOf(i)[j].time > NotifsOf(i)[k].time

\* a "work" task due tomorrow, work hours from 10:00: the notice is still at 09:00
C18_Witness ==
    /\ returned # <<>>
    /\ Active /\ task.priority = "high" /\ HasDueDate /\ ~DueSpecific /\ IsWork
    /\ profile.work_hours_start = HHMM("1", "0", "0", "0")
    /\ DayStart(Due) = DayStart(ClockOf(1)) + DayMinutes
    /\ Len(NotifsOf(1)) = 4
    /\ NotifsOf(1)[1].type = "advance-notice"
    /\ NotifsOf(1)[1].time = DayStart(ClockOf(1)) + 9 * 60

(* C19: branches do not fall through: a task due before today gets only     *)
(* entries of type overdue; a task due today or later never gets one; a     *)
(* daily-summary goes to tasks without a due date only (which get nothing   *)
(* else); every entry's priority is the task's.                             *)
C19_NoFallThrough ==
    \A i \in Calls :
        /\ DueBeforeToday(i) => TypesOf(i) \subseteq {"overdue"}
        /\ (HasDueDate /\ ~DueBeforeToday(i))
             => TypesOf(i) \subseteq {"advance-notice", "reminder", "final-reminder"}
        /\ ~HasDueDate => TypesOf(i) \subseteq {"daily-summary"}
        /\ \A k \in DOMAIN NotifsOf(i) : NotifsOf(i)[k].priority = task.priority

\* a task due earlier today at a specific time that still gets its final reminder only
C19_Witness ==
    /\ returned # <<>>
    /\ Active /\ task.priority = "high" /\ DueToday(1) /\ DueSpecific
    /\ Due - 2 * 60 <= ClockOf(1)
    /\ TypesOf(1) = {"final-reminder"}

(* C20: a returned schedule never holds two notifications with the same     *)
(* time and the same type, for every task and every work-hours window.      *)
(* With work hours ending before 14:00 the 14:00 and 18:00 reminders of a   *)
(* date-only task are both clamped to the end of the window.                *)
C20_NoDuplicates ==
    \A i \in Calls : \A j, k \in DOMAIN NotifsOf(i) :
        j < k => ~( /\ NotifsOf(i)[j].time = NotifsOf(i)[k].time
                    /\ NotifsOf(i)[j].type = NotifsOf(i)[k].type )


----------------------------------------------------------------------------
(* The batch call and the summary.                                          *)

BatchDone == allSchedules # <<>>
Batch == allSchedules[1]

\* the count the batch call must pass for task j: its entry, or 0 when absent
CountFor(j) ==
    IF tasks[j].id \in DOMAIN overdueReminderCounts
    THEN overdueReminderCounts[tasks[j].id] ELSE 0

SingleResult(j) == calculateNotificationSchedule(tasks[j], profile, CountFor(j), now)

\* task j must appear in the result
Qualifies(j) ==
    /\ tasks[j].status # "completed"
    /\ SingleResult(j).notifications # <<>>

Qualifying == {j \in DOMAIN tasks : Qualifies(j)}

\* the input position of the k-th qualifying task
QualifyingAt(k) ==
    CHOOSE j \in Qualifying : Cardinality({i \in Qualifying : i < j}) = k - 1

\* C14: the batch call returns, in input order, exactly the single-task results
\* (with the task's count, or 0 when it has none) of the non-completed tasks
\* whose notification list is non-empty: nothing empty, nothing completed,
\* nothing missing.
C14_BatchIsFilteredMap ==
    BatchDone =>
        /\ Len(Batch) = Cardinality(Qualifying)
        /\ \A k \in DOMAIN Batch :
               /\ Batch[k] = SingleResult(QualifyingAt(k))
               /\ Batch[k].notifications # <<>>
               /\ tasks[QualifyingAt(k)].status # "completed"

\* a first task left out and a second, overdue with a count of its own, kept
C14_Witness ==
    /\ BatchDone
    /\ Len(tasks) = 2
    /\ ~Qualifies(1)
    /\ Len(Batch) = 1
    /\ Batch[1].taskId = TaskId(2)
    /\ CountFor(2) = 3
    /\ Batch[1].notifications[1].type = "overdue"

\* the notifications of the summarised schedules, by position
Positions ==
    UNION {{<<k, j>> : j \in DOMAIN Batch[k].notifications} : k \in DOMAIN Batch}
NotifAt(pos) == Batch[pos[1]].notifications[pos[2]]
TypesPresent == {NotifAt(pos).type : pos \in Positions}

RECURSIVE SumOver(_, _)
SumOver(f, keys) ==
    IF keys = {} THEN 0
    ELSE LET k == CHOOSE x \in keys : TRUE IN f[k] + SumOver(f, keys \ {k})

\* C15: the summary's total is the number of notifications over the schedules,
\* byPriority[p] the number with priority p, byType[t] the number with type t
\* (for the types that occur, its only keys); both families sum to total, and
\* the schedules are what they were before the summary.
C15_SummaryCounts ==
    summary # <<>> =>
        LET sum == summary[1] IN
        /\ sum.total = Cardinality(Positions)
        /\ DOMAIN sum.byPriority = Priorities
        /\ \A p \in Priorities :
               sum.byPriority[p] =
                   Cardinality({pos \in Positions : NotifAt(pos).priority = p})
        /\ DOMAIN sum.byType = TypesPresent
        /\ \A t \in TypesPresent :
               sum.byType[t] = Cardinality({pos \in Positions : NotifAt(pos).type = t})
        /\ SumOver(sum.byPriority, Priorities) = sum.total
        /\ SumOver(sum.byType, TypesPresent) = sum.total
        /\ Batch = calculateAllNotificationSchedules(
                       tasks, profile, overdueReminderCounts, now)

\* two schedules, both priorities, a type counted more than once
C15_Witness ==
    /\ summary # <<>>
    /\ Len(Batch) = 2
    /\ summary[1].total >= 4
    /\ summary[1].byPriority["high"] >= 1
    /\ summary[1].byPriority["medium"] >= 1
    /\ \E t \in TypesPresent : summary[1].byType[t] >= 2
    /\ Cardinality(TypesPresent) >= 2



----------------------------------------------------------------------------
(* Re-invocation of the overdue branch, the classification by calendar day, *)
(* the due instant as an upper limit, and the size of a schedule.           *)

\* invocation i evaluated a not-completed high-priority task that is overdue,
\* not a work task, and below the cap
HighOverdueNonWork(i) ==
    /\ Active /\ task.priority = "high" /\ ~IsWork
    /\ DueBeforeToday(i)
    /\ existingOverdueReminders < 3

\* C21: for an overdue high-priority task that is not a work task, below the
\* cap, every invocation proposes exactly one overdue entry 4 hours after the
\* clock it read, so an invocation at a later clock proposes a strictly later
\* instant and the proposal is always ahead of the clock that produced it.
C21_OverdueProposalKeepsMoving ==
    \A i \in Calls :
        HighOverdueNonWork(i) =>
            /\ Len(NotifsOf(i)) = 1
            /\ NotifsOf(i)[1].type = "overdue"
            /\ NotifsOf(i)[1].time = ClockOf(i) + 4 * 60
            /\ NotifsOf(i)[1].time > ClockOf(i)
            /\ \A j \in Calls :
                   ClockOf(i) < ClockOf(j) => NotifsOf(i)[1].time < NotifsOf(j)[1].time

\* two invocations an hour apart, the second proposing a later instant
C21_Witness ==
    /\ Len(returned) >= 2
    /\ HighOverdueNonWork(1)
    /\ ClockOf(2) = ClockOf(1) + TickMinutes
    /\ NotifsOf(2)[1].time > NotifsOf(1)[1].time

\* C22: overdue is decided by calendar day: a not-completed high- or
\* medium-priority task due today never gets an overdue entry, and when its
\* specific due time today is already before the clock its schedule is empty.
C22_DueTodayNeverOverdue ==
    \A i \in Calls :
        ( Active /\ task.priority \in {"high", "medium"} /\ DueToday(i) )
        => /\ "overdue" \notin TypesOf(i)
           /\ (DueSpecific /\ Due < ClockOf(i)) => NotifsOf(i) = <<>>

\* a high-priority task due earlier today, below the cap, with an empty schedule
C22_Witness ==
    /\ returned # <<>>
    /\ Active /\ task.priority = "high" /\ DueToday(1)
    /\ DueSpecific /\ Due < ClockOf(1)
    /\ existingOverdueReminders < 3
    /\ NotifsOf(1) = <<>>

\* C27: for a task that is not overdue and has a specific due time T, every
\* entry of the schedule is strictly before T, whatever the category and the
\* work hours.  Clamping a 2h-before candidate forward to the start of the
\* work hours can put it at or after T, so this fails.
C27_AllBeforeDue ==
    \A i \in Calls :
        ( Active /\ DueSpecific /\ ~DueBeforeToday(i) )
        => \A k \in DOMAIN NotifsOf(i) : NotifsOf(i)[k].time < Due

\* C28: a schedule has at most one entry for an undated task, an overdue task
\* and a medium-priority task, at most three for a high-priority task with a
\* specific due time, at most four for a high-priority date-only task; never
\* more than four.
C28_ScheduleSizeBounded ==
    \A i \in Calls :
        /\ Len(NotifsOf(i)) <= 4
        /\ ~HasDueDate => Len(NotifsOf(i)) <= 1
        /\ DueBeforeToday(i) => Len(NotifsOf(i)) <= 1
        /\ task.priority = "medium" => Len(NotifsOf(i)) <= 1
        /\ (task.priority = "high" /\ DueSpecific /\ ~DueBeforeToday(i))
               => Len(NotifsOf(i)) <= 3
        /\ (task.priority = "high" /\ HasDueDate /\ ~DueSpecific /\ ~DueBeforeToday(i))
               => Len(NotifsOf(i)) <= 4

\* a date-only high-priority task at the limit of four
C28_Witness ==
    /\ returned # <<>>
    /\ task.priority = "high" /\ HasDueDate /\ ~DueSpecific
    /\ Len(NotifsOf(1)) = 4
    /\ Cardinality(TypesOf(1)) = 2



----------------------------------------------------------------------------
(* The scheduler hook.                                                      *)

Acted(r) == runs[r].pc # "skipped"
Returned(r) == runs[r].pc \in {"skipped", "done"}
HandedIdentity(k) == <<handed[k].taskId, handed[k].type, handed[k].scheduleAt>>

\* the identities of the engine schedules run r computed
ComputedBy(r) ==
    {identityOf(e.taskId, e.notif) :
         e \in {loopOrder(runs[r].schedules)[k] : k \in DOMAIN loopOrder(runs[r].schedules)}}

PendingIdentities == {<<n.taskId, n.type, n.at>> : n \in pending}

\* C24: when a run has completed (native platform, notifications enabled, no
\* schedule time in the quiet hours) and no other run is in flight, the
\* pending platform notifications are exactly those of the schedule that run
\* computed: stale ones of every type cancelled, none of the new ones lost.
C24_PendingIsFreshSchedule ==
    \A r \in DOMAIN runs :
        ( /\ r = Len(runs)
          /\ runs[r].pc = "done"
          /\ InFlight = {}
          /\ \A id \in ComputedBy(r) : ~willBeInQuietHours(id[3], settings) )
        => PendingIdentities = ComputedBy(r)

\* overdue notifications of a task handed over so far
OverdueHanded(id) ==
    Cardinality({k \in DOMAIN handed : handed[k].taskId = id /\ handed[k].type = "overdue"})

\* C25: the overdue counter of a high-priority task never exceeds 3, at most
\* 3 overdue notifications are handed over for it (the session stays within
\* one day), and the counter equals the number handed over.
C25_OverdueCounterCapped ==
    \A k \in DOMAIN tasks :
        tasks[k].priority = "high"
        => /\ countOrZero(overdueReminderCounts, tasks[k].id) <= 3
           /\ OverdueHanded(tasks[k].id) <= 3
           /\ countOrZero(overdueReminderCounts, tasks[k].id) = OverdueHanded(tasks[k].id)

\* the platform id scheduleNotification gives a handed notification
IdOf(n) == generateNotificationId(n.type, n.taskId, n.scheduleAt)

\* C29: two different notifications one run hands over in one batch get
\* different platform ids, and once the batch is scheduled all of them are
\* pending.
C29_DistinctIdsAllPending ==
    \A r \in DOMAIN runs :
        LET batch == runs[r].allNotifications IN
        /\ \A i, j \in DOMAIN batch : i # j => IdOf(batch[i]) # IdOf(batch[j])
        /\ (r = Len(runs) /\ runs[r].pc \in {"finishing", "done"})
               => \A i \in DOMAIN batch :
                      <<batch[i].taskId, batch[i].type, batch[i].scheduleAt>>
                          \in PendingIdentities

\* C30: for one schedule key at most one run gets past the key guard, whether
\* the other run starts after it has completed or while it awaits a
\* cancellation.
C30_OneRunPerKey ==
    \A r, q \in DOMAIN runs :
        (r # q /\ runs[r].scheduleKey = runs[q].scheduleKey) => ~(Acted(r) /\ Acted(q))



----------------------------------------------------------------------------
(* scheduleNotification and the quiet hours.                                *)

\* the quiet-hours window of the settings, in minutes of the day
QuietWindow ==
    CHOOSE w \in QuietWindows :
        /\ settings.quietHoursStart = hhmmOf(w[1])
        /\ settings.quietHoursEnd = hhmmOf(w[2])

\* the time of day of instant d lies in the window, both ends included
InQuietHours(d) ==
    LET m == d % DayMinutes
        w == QuietWindow
    IN  IF w[1] <= w[2] THEN w[1] <= m /\ m <= w[2]
        ELSE m >= w[1] \/ m <= w[2]

\* the user has switched the setting of this type off
SwitchedOff(type) ==
    \/ type \in {"advance-notice", "final-reminder"} /\ ~settings.taskReminders
    \/ type = "overdue" /\ ~settings.overdueAlerts
    \/ type = "daily-summary" /\ ~settings.aiRecommendations

\* the descriptors of run r that scheduleNotification has been called for
Processed(r) == SubSeq(runs[r].allNotifications, 1, runs[r].next - 1)

\* C26: no pending platform notification has its time of day inside the quiet
\* hours (ends included, a window over midnight too) or a type that is
\* switched off; a descriptor in the quiet hours or of a switched-off type
\* yields no id; the ids collected by scheduleMultipleNotifications are
\* exactly the ids of the notifications scheduled.
C26_QuietHoursRespected ==
    /\ \A n \in pending : ~InQuietHours(n.at) /\ ~SwitchedOff(n.type)
    /\ \A r \in DOMAIN runs :
           /\ Len(runs[r].ids) <=
                  Len(SelectSeq(Processed(r),
                                LAMBDA n : ~InQuietHours(n.scheduleAt) /\ ~SwitchedOff(n.type)))
           /\ {runs[r].ids[k] : k \in DOMAIN runs[r].ids} \subseteq {n.id : n \in pending}
    /\ {n.id : n \in pending} =
           UNION {{runs[r].ids[k] : k \in DOMAIN runs[r].ids} : r \in DOMAIN runs}

\* quiet hours over midnight: a descriptor at 07:00 sharp was refused and one
\* at 07:01 was scheduled and is the only id returned
C26_Witness ==
    /\ QuietWindow = <<22 * 60, 7 * 60>>
    /\ runs[1].pc = "finishing"
    /\ Len(runs[1].allNotifications) = 2
    /\ runs[1].allNotifications[1].scheduleAt % DayMinutes = 7 * 60
    /\ runs[1].allNotifications[1].type = "advance-notice"
    /\ runs[1].allNotifications[2].scheduleAt % DayMinutes = 7 * 60 + 1
    /\ Len(runs[1].ids) = 1
    /\ \E n \in pending : n.at % DayMinutes = 7 * 60 + 1


====
